---- MODULE Spec2Model ----
(***************************************************************************)
(* MapItOut: the tree store (nodes, selection, layout type), the keyboard  *)
(* hook, the floating toolbar and the node component's editing handlers of *)
(* the simplified variant, as a state machine.                             *)
(*                                                                         *)
(* A node id is a natural number; nanoid() is a counter (nextId), so ids   *)
(* are unique and never reused.  NoId stands for null and for '' (both are *)
(* falsy in the source, and the source only ever tests them for truth).    *)
(* A text is a sequence of one-character strings.                          *)
(* The JavaScript Map keeps insertion order; ids are issued in increasing  *)
(* order and no operation re-inserts a key, so the Map's order is the      *)
(* order of the ids.                                                       *)
(***************************************************************************)
EXTENDS Integers, Sequences, FiniteSets, TLC

\* Number of ids nanoid() hands out in one behaviour.
MaxIds == 3
\* Number of text commits (Enter or blur in the textarea) in one behaviour.
MaxEdits == 1
\* Number of runs of the force-directed engine in one behaviour.
MaxRuns == 3

NoId == 0
\* An id that references no node: nanoid() never returns it.
GhostId == MaxIds + 1

NewNodeText == << "N", "e", "w", " ", "N", "o", "d", "e" >>
StartHereText == << "S", "t", "a", "r", "t", " ", "H", "e", "r", "e" >>
RootNodeText == << "R", "o", "o", "t", " ", "N", "o", "d", "e" >>
\* What the user types into the textarea.
Buffers == { << "h", "i" >>, << "<", "b", ">" >> }

LayoutTypes == { "center", "top" }

VARIABLES
    nodes,          \* useMapStore: Map<id, Node>, a function id -> [text, parent, children]
    selectedId,     \* useMapStore: selectedId
    layoutType,     \* useMapStore: layoutType
    isEditing,      \* useUIStore: isEditing
    editingNodeId,  \* useUIStore: editingNodeId
    editText,       \* NodeComponent: editText of the node being edited
    edits,          \* number of text commits so far (bounds the model)
    nextId,         \* the next id nanoid() returns
    published,      \* the store states the last handler handed to subscribers, in order
    last,           \* the last handler that ran, with its argument
    mainStore,      \* the earlier store with deleteNode: [nodes, rootId, selectedId]
    positions,      \* MapCanvas: the memoized result of calculateLayout
    isPanning,      \* MapCanvas: isPanning
    engine          \* the connection-based store under its force-directed engine

vars == << nodes, selectedId, layoutType, isEditing, editingNodeId, editText,
           edits, nextId, published, last, mainStore, positions, isPanning, engine >>

\* The stores other than the simplified one.
otherStores == << mainStore, engine >>

----------------------------------------------------------------------------
\* Helpers on maps and arrays.

EmptyMap == [ i \in {} |-> [ id |-> i, text |-> << >>, parent |-> NoId, children |-> << >> ] ]

\* The connection-based store before its first node, after setLayoutType('snake'),
\* with the number of engine runs so far.
EmptyEngine == [ nodes |-> << >>, runs |-> 0, layoutType |-> "snake" ]

\* Map.set(id, node) on a copy of the map.
MapSet(m, id, node) == [ i \in DOMAIN m \cup { id } |-> IF i = id THEN node ELSE m[i] ]

\* The map without some keys (new Map(nodes) followed by delete).
MapWithout(m, ids) == [ i \in DOMAIN m \ ids |-> m[i] ]

\* Array.prototype.filter(x => x !== id)
RECURSIVE FilterOut(_, _)
FilterOut(arr, id) ==
    IF arr = << >> THEN << >>
    ELSE IF Head(arr) = id THEN FilterOut(Tail(arr), id)
         ELSE << Head(arr) >> \o FilterOut(Tail(arr), id)

\* Array.prototype.indexOf, 1-based; 0 when absent.
RECURSIVE IndexFrom(_, _, _)
IndexFrom(arr, id, i) ==
    IF i > Len(arr) THEN 0
    ELSE IF arr[i] = id THEN i ELSE IndexFrom(arr, id, i + 1)

IndexOf(arr, id) == IndexFrom(arr, id, 1)

Range(arr) == { arr[i] : i \in 1 .. Len(arr) }

\* The state object a subscriber of the store receives.
Snapshot(ns, sel) == [ nodes |-> ns, selectedId |-> sel ]

----------------------------------------------------------------------------
\* useMapStore (simplified store).

NewNode(id, parentId, text) ==
    [ id |-> id, text |-> text, parent |-> parentId, children |-> << >> ]

\* createNode with unshift in place of push: the new child comes first.
CreateNodeMapUnshift(ns, parentId, text, id) ==
    LET newNodes == MapSet(ns, id, NewNode(id, parentId, text))
    IN IF parentId # NoId /\ parentId \in DOMAIN newNodes
       THEN [ newNodes EXCEPT ![parentId].children = << id >> \o @ ]
       ELSE newNodes

\* createNode: the Map after the set() callback.
CreateNodeMap(ns, parentId, text, id) ==
    LET newNodes == MapSet(ns, id, NewNode(id, parentId, text))
    IN IF parentId # NoId /\ parentId \in DOMAIN newNodes
       THEN [ newNodes EXCEPT ![parentId].children = Append(@, id) ]
       ELSE newNodes

\* createNode that leaves the selection as it was.
createNodeKeepsSelection(parentId, text) ==
    /\ nextId <= MaxIds
    /\ nodes' = CreateNodeMap(nodes, parentId, text, nextId)
    /\ selectedId' = selectedId
    /\ nextId' = nextId + 1
    /\ published' = << Snapshot(nodes', selectedId') >>

createNode(parentId, text) ==
    /\ nextId <= MaxIds
    /\ nodes' = CreateNodeMap(nodes, parentId, text, nextId)
    /\ selectedId' = nextId
    /\ nextId' = nextId + 1
    /\ published' = << Snapshot(nodes', selectedId') >>

\* updateNode that spreads every field of updates into the node, as the earlier
\* stores do ({ ...node, ...updates }).
SpreadAllUpdates(updates) == updates

\* updateNode: updates is a Partial<Node>, a record with some of the fields
\* id, text, parent, children.  The rest parameter drops id, children and parent.

SafeUpdates(updates) ==
    [ f \in DOMAIN updates \ { "id", "children", "parent" } |-> updates[f] ]

\* Object.assign(node, safeUpdates)
Assign(node, upd) ==
    [ f \in DOMAIN node \cup DOMAIN upd |-> IF f \in DOMAIN upd THEN upd[f] ELSE node[f] ]

UpdateNodeMap(ns, id, updates) ==
    IF id \in DOMAIN ns
    THEN [ ns EXCEPT ![id] = Assign(@, SafeUpdates(updates)) ]
    ELSE ns

updateNode(id, updates) ==
    /\ nodes' = UpdateNodeMap(nodes, id, updates)
    /\ published' = << Snapshot(nodes', selectedId) >>

selectNode(id) ==
    /\ selectedId' = id
    /\ published' = << Snapshot(nodes, id) >>

\* setLayoutType that also clears the selection.
setLayoutTypeDeselects(type) ==
    /\ layoutType' = type
    /\ nodes' = nodes
    /\ selectedId' = NoId
    /\ published' = << Snapshot(nodes, NoId) >>

\* set({ layoutType: type }): the other fields of the state are kept.
setLayoutType(type) ==
    /\ layoutType' = type
    /\ UNCHANGED << nodes, selectedId >>
    /\ published' = << Snapshot(nodes, selectedId) >>

\* useUIStore
startEditing(nodeId) ==
    /\ isEditing' = TRUE
    /\ editingNodeId' = nodeId

stopEditing ==
    /\ isEditing' = FALSE
    /\ editingNodeId' = NoId

----------------------------------------------------------------------------
\* deleteNodeAndChildren (keyboard hook and toolbar, the same code twice).
\* The handler's closure holds the Map of the last render; its node objects
\* are shared with the store and mutated in place.  st.objs is that Map with
\* the objects' current contents, st.pubs the states handed to setState so far.

RECURSIVE deleteNodeAndChildren(_, _)
RECURSIVE DeleteEach(_, _, _)

\* node.children.forEach(childId => deleteNodeAndChildren(childId)) over the
\* array the forEach started on.
DeleteEach(st, kids, i) ==
    IF i > Len(kids) THEN st
    ELSE DeleteEach(deleteNodeAndChildren(st, kids[i]), kids, i + 1)

deleteNodeAndChildren(st, nodeId) ==
    IF nodeId \notin DOMAIN st.objs THEN st
    ELSE LET afterKids == DeleteEach(st, st.objs[nodeId].children, 1)
             parentId == afterKids.objs[nodeId].parent
             objs == IF parentId # NoId /\ parentId \in DOMAIN afterKids.objs
                     THEN [ afterKids.objs EXCEPT
                              ![parentId].children = FilterOut(@, nodeId) ]
                     ELSE afterKids.objs
             newNodes == MapWithout(objs, { nodeId })
         IN [ objs |-> objs,
              pubs |-> Append(afterKids.pubs, Snapshot(newNodes, NoId)) ]

\* handleDeleteNode / case 'Delete': the store after the handler.
DeleteSelected ==
    IF selectedId = NoId
    THEN UNCHANGED << nodes, selectedId >> /\ published' = << >>
    ELSE LET res == deleteNodeAndChildren([ objs |-> nodes, pubs |-> << >> ], selectedId)
         IN /\ published' = res.pubs
            /\ IF res.pubs = << >>
               THEN UNCHANGED << nodes, selectedId >>
               ELSE /\ nodes' = res.pubs[Len(res.pubs)].nodes
                    /\ selectedId' = res.pubs[Len(res.pubs)].selectedId

----------------------------------------------------------------------------
\* Which nodes the canvas renders: those the layout gives a position, the
\* nodes reached from the root through children lists.

\* findRootNode: the first node of the Map without a parent.
RootIds(ns) == { i \in DOMAIN ns : ns[i].parent = NoId }

\* findRootNode that falls back to the first node of the Map.
FindRootNodeOrFirst(ns) ==
    IF RootIds(ns) # {} THEN CHOOSE r \in RootIds(ns) : \A o \in RootIds(ns) : r <= o
    ELSE IF DOMAIN ns = {} THEN NoId
    ELSE CHOOSE r \in DOMAIN ns : \A o \in DOMAIN ns : r <= o

FindRootNode(ns) ==
    IF RootIds(ns) = {} THEN NoId
    ELSE CHOOSE r \in RootIds(ns) : \A o \in RootIds(ns) : r <= o

RECURSIVE ReachFrom(_, _, _)
ReachFrom(ns, frontier, seen) ==
    IF frontier = {} THEN seen
    ELSE LET next == { k \in DOMAIN ns :
                         \E p \in frontier : k \in Range(ns[p].children) } \ seen
         IN ReachFrom(ns, next, seen \cup next)

PositionedIds(ns) ==
    IF FindRootNode(ns) = NoId THEN {}
    ELSE ReachFrom(ns, { FindRootNode(ns) }, { FindRootNode(ns) })

----------------------------------------------------------------------------
\* calculateLayout: the Center and Top engines.  A position map is a function
\* id -> [x, y, width, height].

\* The sizing rule shared by both layouts: max(MIN_WIDTH, k * text.length).
MinWidth == 100
CharWidth == 8
NodeHeight == 40

calculateTextWidth(text) ==
    IF CharWidth * Len(text) > MinWidth THEN CharWidth * Len(text) ELSE MinWidth

EmptyPositions == [ i \in {} |-> [ x |-> 0, y |-> 0, width |-> 0, height |-> 0 ] ]

\* positions.set(id, { x, y, width, height })
PositionSet(pos, id, x, y, text) ==
    [ i \in DOMAIN pos \cup { id } |->
        IF i = id
        THEN [ x |-> x, y |-> y, width |-> calculateTextWidth(text), height |-> NodeHeight ]
        ELSE pos[i] ]

\* parent.children.map(id => nodes.get(id)).filter(Boolean)
ExistingChildren(ns, parentId) ==
    SelectSeq(ns[parentId].children, LAMBDA id : id \in DOMAIN ns)

RECURSIVE CenterPositionTier(_, _, _, _)
RECURSIVE CenterEachChild(_, _, _, _, _, _)

\* children.forEach((child, index) => ...); index is 0-based in the source.
CenterEachChild(ns, pos, parentPos, kids, i, distance) ==
    IF i > Len(kids) THEN pos
    ELSE LET index == i - 1
             isLeft == index % 2 = 0
             x == parentPos.x + (IF isLeft THEN 0 - distance ELSE distance)
             y == parentPos.y + (index * 80) - ((Len(kids) - 1) * 40)
             placed == PositionSet(pos, kids[i], x, y, ns[kids[i]].text)
             below == CenterPositionTier(ns, placed, kids[i], distance + 50)
         IN CenterEachChild(ns, below, parentPos, kids, i + 1, distance)

CenterPositionTier(ns, pos, parentId, distance) ==
    IF parentId \notin DOMAIN ns THEN pos
    ELSE IF parentId \notin DOMAIN pos \/ ExistingChildren(ns, parentId) = << >> THEN pos
    ELSE CenterEachChild(ns, pos, pos[parentId], ExistingChildren(ns, parentId), 1, distance)

\* CenterLayout with the first tier 200 from the root.
CenterLayoutNarrow(ns) ==
    IF FindRootNode(ns) = NoId THEN EmptyPositions
    ELSE LET rootId == FindRootNode(ns)
         IN CenterPositionTier(ns, PositionSet(EmptyPositions, rootId, 800, 400, ns[rootId].text),
                               rootId, 200)

CenterLayout(ns) ==
    IF FindRootNode(ns) = NoId THEN EmptyPositions
    ELSE LET rootId == FindRootNode(ns)
         IN CenterPositionTier(ns, PositionSet(EmptyPositions, rootId, 800, 400, ns[rootId].text),
                               rootId, 250)

\* buildDepthMap: the depth of every id reached from the root through children
\* lists (root 0, a child its parent's depth + 1).
RECURSIVE BuildDepthFrom(_, _, _, _)
BuildDepthFrom(ns, frontier, depth, acc) ==
    IF frontier = {} THEN acc
    ELSE LET seen == DOMAIN acc \cup frontier
             next == { k \in DOMAIN ns :
                         \E p \in frontier : k \in Range(ns[p].children) } \ seen
         IN BuildDepthFrom(ns, next, depth + 1,
                           [ i \in seen |-> IF i \in frontier THEN depth ELSE acc[i] ])

buildDepthMap(ns, rootId) ==
    BuildDepthFrom(ns, { rootId }, 0, [ i \in {} |-> 0 ])

\* Array.from(nodes.entries()).filter(...): the ids of a depth in the Map's order.
RECURSIVE TierNodes(_, _, _)
TierNodes(depthMap, depth, i) ==
    IF \A k \in DOMAIN depthMap : k < i THEN << >>
    ELSE IF i \in DOMAIN depthMap /\ depthMap[i] = depth
         THEN << i >> \o TierNodes(depthMap, depth, i + 1)
         ELSE TierNodes(depthMap, depth, i + 1)

\* The row's width with every node taken as MIN_WIDTH wide.
SumWidthsFixed(ns, tier, i) == (Len(tier) - i + 1) * MinWidth

RECURSIVE SumWidths(_, _, _)
SumWidths(ns, tier, i) ==
    IF i > Len(tier) THEN 0
    ELSE calculateTextWidth(ns[tier[i]].text) + SumWidths(ns, tier, i + 1)

\* tierNodes.forEach: x is the cursor.  Every width is even (100 or a multiple
\* of 8), so the halves of the source are integers.
RECURSIVE TopEachNode(_, _, _, _, _, _)
TopEachNode(ns, pos, tier, i, x, y) ==
    IF i > Len(tier) THEN pos
    ELSE LET width == calculateTextWidth(ns[tier[i]].text)
         IN TopEachNode(ns, PositionSet(pos, tier[i], x + (width \div 2), y, ns[tier[i]].text),
                        tier, i + 1, x + width + 60, y)

TopPositionTier(ns, pos, depthMap, depth) ==
    LET tier == TierNodes(depthMap, depth, 1)
    IN IF tier = << >> THEN pos
       ELSE LET y == 50 + (depth * 120)
                totalWidth == SumWidths(ns, tier, 1) + (Len(tier) - 1) * 60
            IN TopEachNode(ns, pos, tier, 1, 800 - (totalWidth \div 2), y)

RECURSIVE TopEachTier(_, _, _, _, _)
TopEachTier(ns, pos, depthMap, depth, maxDepth) ==
    IF depth > maxDepth THEN pos
    ELSE TopEachTier(ns, TopPositionTier(ns, pos, depthMap, depth), depthMap, depth + 1, maxDepth)

TopLayout(ns) ==
    IF FindRootNode(ns) = NoId THEN EmptyPositions
    ELSE LET rootId == FindRootNode(ns)
             depthMap == buildDepthMap(ns, rootId)
             maxDepth == CHOOSE d \in { depthMap[i] : i \in DOMAIN depthMap } : \A o \in { depthMap[i] : i \in DOMAIN depthMap } : o <= d
         IN TopEachTier(ns, PositionSet(EmptyPositions, rootId, 800, 50, ns[rootId].text),
                        depthMap, 1, maxDepth)

calculateLayout(ns, type) ==
    IF type = "center" THEN CenterLayout(ns) ELSE TopLayout(ns)

\* The memo with [nodes] as its dependency list.
MemoDepsWithoutLayoutType(installed) == installed

\* useMemo(..., [nodes, layoutType]): the dependencies are compared by identity.
\* installed says that the handler handed a new Map object to the store.
MemoDepsChanged(installed) == installed \/ layoutType' # layoutType

\* The render that follows a handler: MapCanvas takes nodes and layoutType from
\* the store and its positions from the memo.
Render(installed) ==
    positions' = IF MemoDepsChanged(installed)
                 THEN calculateLayout(nodes', layoutType')
                 ELSE positions

----------------------------------------------------------------------------
\* Keyboard navigation targets.

findNodeAbove(ns, id) ==
    LET node == ns[id]
    IN IF node.parent = NoId THEN NoId
       ELSE IF node.parent \notin DOMAIN ns THEN NoId
       ELSE LET siblings == ns[node.parent].children
                currentIndex == IndexOf(siblings, id)
            IN IF currentIndex > 1 THEN siblings[currentIndex - 1] ELSE NoId

\* findNodeBelow that wraps from the last sibling to the first.
findNodeBelowWraps(ns, id) ==
    LET node == ns[id]
    IN IF node.parent = NoId THEN NoId
       ELSE IF node.parent \notin DOMAIN ns THEN NoId
       ELSE LET siblings == ns[node.parent].children
                currentIndex == IndexOf(siblings, id)
            IN IF currentIndex < Len(siblings) THEN siblings[currentIndex + 1]
               ELSE siblings[1]

\* indexOf gives -1 for an absent id, so siblings[0] is the target then.
findNodeBelow(ns, id) ==
    LET node == ns[id]
    IN IF node.parent = NoId THEN NoId
       ELSE IF node.parent \notin DOMAIN ns THEN NoId
       ELSE LET siblings == ns[node.parent].children
                currentIndex == IndexOf(siblings, id)
            IN IF currentIndex < Len(siblings) THEN siblings[currentIndex + 1] ELSE NoId

findNodeLeft(ns, id) == ns[id].parent

findNodeRight(ns, id) ==
    IF Len(ns[id].children) > 0 THEN ns[id].children[1] ELSE NoId

Directions == { "ArrowUp", "ArrowDown", "ArrowLeft", "ArrowRight" }

NavigationTarget(ns, sel, direction) ==
    IF sel = NoId \/ sel \notin DOMAIN ns THEN NoId
    ELSE CASE direction = "ArrowUp" -> findNodeAbove(ns, sel)
           [] direction = "ArrowDown" -> findNodeBelow(ns, sel)
           [] direction = "ArrowLeft" -> findNodeLeft(ns, sel)
           [] direction = "ArrowRight" -> findNodeRight(ns, sel)

----------------------------------------------------------------------------
Init ==
    /\ nodes = EmptyMap
    /\ selectedId = NoId
    /\ layoutType = "center"
    /\ isEditing = FALSE
    /\ editingNodeId = NoId
    /\ editText = << >>
    /\ edits = 0
    /\ nextId = 1
    /\ published = << >>
    /\ last = [ op |-> "init", arg |-> NoId ]
    /\ mainStore = [ nodes |-> EmptyMap, rootId |-> NoId, selectedId |-> NoId ]
    /\ positions = calculateLayout(EmptyMap, "center")
    /\ isPanning = FALSE
    /\ engine = EmptyEngine

\* The initial-node effect of MapCanvas runs after every render that finds the
\* Map empty, before the next input event is handled.
EffectPending == nodes = EmptyMap /\ nextId <= MaxIds

UiUnchanged == UNCHANGED << isEditing, editingNodeId, editText, edits, isPanning, otherStores >>

\* The effect with an empty dependency list: it runs after the first render only.
InitialNodeEffectOnMount ==
    /\ nodes = EmptyMap
    /\ last.op = "init"
    /\ createNode(NoId, StartHereText)
    /\ last' = [ op |-> "effect", arg |-> NoId ]
    /\ UNCHANGED layoutType
    /\ UiUnchanged
    /\ Render(TRUE)

InitialNodeEffect ==
    /\ nodes = EmptyMap
    /\ createNode(NoId, StartHereText)
    /\ last' = [ op |-> "effect", arg |-> NoId ]
    /\ UNCHANGED layoutType
    /\ UiUnchanged
    /\ Render(TRUE)

\* The keydown handler without its isEditing test.
KeyboardActiveWhileEditing == ~EffectPending

\* The document's keydown handler returns at once while a node is edited.
KeyboardActive == ~EffectPending /\ ~isEditing

KeyTab ==
    /\ KeyboardActive
    /\ last' = [ op |-> "Tab", arg |-> selectedId ]
    /\ IF selectedId # NoId
       THEN createNode(selectedId, NewNodeText)
       ELSE IF nodes = EmptyMap
            THEN createNode(NoId, RootNodeText)
            ELSE UNCHANGED << nodes, selectedId, nextId >> /\ published' = << >>
    /\ UNCHANGED layoutType
    /\ UiUnchanged
    /\ Render(selectedId # NoId \/ nodes = EmptyMap)

\* Enter that creates a child of the selection, as Tab does.
SiblingParentAsTab(ns, sel) == sel

\* case 'Enter': the parent the sibling is created under; NoId when the
\* handler creates nothing.
SiblingParent(ns, sel) ==
    IF sel # NoId /\ sel \in DOMAIN ns /\ ns[sel].parent # NoId
    THEN ns[sel].parent
    ELSE NoId

KeyEnter ==
    /\ KeyboardActive
    /\ last' = [ op |-> "Enter", arg |-> selectedId ]
    /\ IF SiblingParent(nodes, selectedId) # NoId
       THEN createNode(SiblingParent(nodes, selectedId), NewNodeText)
       ELSE UNCHANGED << nodes, selectedId, nextId >> /\ published' = << >>
    /\ UNCHANGED layoutType
    /\ UiUnchanged
    /\ Render(nextId' # nextId)

KeyShiftSpace ==
    /\ KeyboardActive
    /\ selectedId # NoId
    /\ startEditing(selectedId)
    /\ editText' = IF selectedId \in DOMAIN nodes THEN nodes[selectedId].text ELSE << >>
    /\ last' = [ op |-> "ShiftSpace", arg |-> selectedId ]
    /\ published' = << >>
    /\ UNCHANGED << nodes, selectedId, layoutType, edits, nextId, isPanning, otherStores >>
    /\ Render(FALSE)

KeyEscape ==
    /\ KeyboardActive
    /\ selectNode(NoId)
    /\ last' = [ op |-> "Escape", arg |-> selectedId ]
    /\ UNCHANGED << nodes, layoutType, nextId >>
    /\ UiUnchanged
    /\ Render(FALSE)

KeyDelete ==
    /\ KeyboardActive
    /\ DeleteSelected
    /\ last' = [ op |-> "Delete", arg |-> selectedId ]
    /\ UNCHANGED << layoutType, nextId >>
    /\ UiUnchanged
    /\ Render(published' # << >>)

KeyArrow ==
    \E direction \in Directions :
        /\ KeyboardActive
        /\ last' = [ op |-> direction, arg |-> selectedId ]
        /\ LET targetId == NavigationTarget(nodes, selectedId, direction)
           IN IF targetId # NoId
              THEN selectNode(targetId)
              ELSE UNCHANGED selectedId /\ published' = << >>
        /\ UNCHANGED << nodes, layoutType, nextId >>
        /\ UiUnchanged
        /\ Render(FALSE)

\* A press on a toolbar button takes the focus from the textarea first, so the
\* toolbar's handlers run after TextareaBlur.
ToolbarDelete ==
    /\ ~EffectPending /\ ~isEditing
    /\ selectedId # NoId
    /\ DeleteSelected
    /\ last' = [ op |-> "Delete", arg |-> selectedId ]
    /\ UNCHANGED << layoutType, nextId >>
    /\ UiUnchanged
    /\ Render(published' # << >>)

ToolbarReset ==
    /\ ~EffectPending /\ ~isEditing
    /\ nodes' = EmptyMap
    /\ selectedId' = NoId
    /\ published' = << Snapshot(EmptyMap, NoId) >>
    /\ last' = [ op |-> "Reset", arg |-> NoId ]
    /\ UNCHANGED << layoutType, nextId >>
    /\ UiUnchanged
    /\ Render(TRUE)

SwitchLayout ==
    \E type \in LayoutTypes :
        /\ ~EffectPending /\ ~isEditing
        /\ setLayoutType(type)
        /\ last' = [ op |-> "layout", arg |-> NoId ]
        /\ UNCHANGED nextId
        /\ UiUnchanged
        /\ Render(FALSE)

\* NodeComponent: only nodes with a position are rendered.
ClickNode ==
    \E id \in PositionedIds(nodes) :
        /\ ~EffectPending
        /\ ~isEditing \/ id = editingNodeId
        /\ selectNode(id)
        /\ last' = [ op |-> "click", arg |-> id ]
        /\ UNCHANGED << nodes, layoutType, nextId >>
        /\ UiUnchanged
        /\ Render(FALSE)

\* The browser sends dblclick right after the second click of the gesture, and
\* handleClick has selected the node by then.
DoubleClickNode ==
    \E id \in PositionedIds(nodes) :
        /\ ~EffectPending
        /\ ~isEditing
        /\ selectedId = id
        /\ startEditing(id)
        /\ editText' = nodes[id].text
        /\ last' = [ op |-> "dblclick", arg |-> id ]
        /\ published' = << >>
        /\ UNCHANGED << nodes, selectedId, layoutType, edits, nextId, isPanning, otherStores >>
        /\ Render(FALSE)

\* The textarea exists while its node is rendered and edited.
TextareaShown == isEditing /\ editingNodeId \in PositionedIds(nodes)

TextareaChange ==
    \E value \in Buffers :
        /\ TextareaShown
        /\ editText' = value
        /\ last' = [ op |-> "change", arg |-> editingNodeId ]
        /\ published' = << >>
        /\ UNCHANGED << nodes, selectedId, layoutType, isEditing, editingNodeId,
                        edits, nextId, isPanning, otherStores >>
        /\ Render(FALSE)

CommitEdit(op) ==
    /\ TextareaShown
    /\ edits < MaxEdits
    /\ updateNode(editingNodeId, [ text |-> editText ])
    /\ stopEditing
    /\ edits' = edits + 1
    /\ last' = [ op |-> op, arg |-> editingNodeId ]
    /\ UNCHANGED << selectedId, layoutType, editText, nextId, isPanning, otherStores >>
    /\ Render(TRUE)

TextareaEnter == CommitEdit("commit")

TextareaBlur == CommitEdit("blur")

\* Escape handled as the blur is: the buffer is committed.
TextareaEscapeCommits == CommitEdit("cancel")

TextareaEscape ==
    /\ TextareaShown
    /\ editText' = nodes[editingNodeId].text
    /\ stopEditing
    /\ last' = [ op |-> "cancel", arg |-> editingNodeId, buffer |-> editText ]
    /\ published' = << >>
    /\ UNCHANGED << nodes, selectedId, layoutType, edits, nextId, isPanning, otherStores >>
    /\ Render(FALSE)

Next ==
    \/ InitialNodeEffect
    \/ KeyTab
    \/ KeyEnter
    \/ KeyShiftSpace
    \/ KeyEscape
    \/ KeyDelete
    \/ KeyArrow
    \/ ToolbarDelete
    \/ ToolbarReset
    \/ SwitchLayout
    \/ ClickNode
    \/ DoubleClickNode
    \/ TextareaChange
    \/ TextareaEnter
    \/ TextareaBlur
    \/ TextareaEscape

Spec == Init /\ [][Next]_vars

----------------------------------------------------------------------------
\* MapCanvas with panning: the middle mouse button drags the viewport.  pan,
\* panStart and mouseStart hold the viewport offset, which no handler of the
\* store or of the editing state reads; they are left out.

PanUnchanged ==
    UNCHANGED << nodes, selectedId, layoutType, isEditing, editingNodeId, editText,
                 edits, nextId, positions, otherStores >>

\* handleMouseDown with button 1 on the background (not on a node or the toolbar).
MouseDownMiddle ==
    /\ ~EffectPending
    /\ isPanning' = TRUE
    /\ last' = [ op |-> "mousedown", arg |-> NoId ]
    /\ published' = << >>
    /\ PanUnchanged

handleMouseMove ==
    /\ ~EffectPending
    /\ UNCHANGED isPanning
    /\ last' = [ op |-> "mousemove", arg |-> NoId ]
    /\ published' = << >>
    /\ PanUnchanged

handleMouseUp ==
    /\ ~EffectPending
    /\ isPanning' = FALSE
    /\ last' = [ op |-> "mouseup", arg |-> NoId ]
    /\ published' = << >>
    /\ PanUnchanged

NextPan ==
    \/ Next
    \/ MouseDownMiddle
    \/ handleMouseMove
    \/ handleMouseUp

SpecPan == Init /\ [][NextPan]_vars

----------------------------------------------------------------------------
\* The connection-based store with layoutType 'snake': SnakeLayout moves the
\* nodes by a force simulation that starts from the coordinates stored on the
\* nodes and adds Math.random() terms to every force.  The simulation's
\* floating-point result is kept symbolic: a coordinate is the pair of the start
\* point and the random outcomes of the runs applied to it since.  Two
\* coordinates are equal when start and outcomes are; the constant flow bias
\* (fx += 3, fy += 1) moves a node on every run, so a further run never gives
\* the coordinate back.

\* What the Math.random() calls of one run can amount to for one node.
RandomOutcomes == { "low", "high" }

\* Where a drag can drop a node.
DragPoints == { << 100, 100 >> }

\* newNode of createNode: the first node is the root at (800, 400).
EngineNewNode(id, isFirstNode) ==
    [ id |-> id,
      x |-> IF isFirstNode THEN 800 ELSE 400,
      y |-> IF isFirstNode THEN 400 ELSE 300,
      sims |-> << >>,
      initialized |-> FALSE,
      manualPosition |-> FALSE ]

\* runForceSimulation over nodeArray; draws[i] is the random outcome for the
\* i-th node.  index is 0-based in the source.
runForceSimulation(nodeArray, draws) ==
    [ i \in 1 .. Len(nodeArray) |->
        LET node == nodeArray[i]
            index == i - 1
            placed == IF ~node.manualPosition /\ ~node.initialized
                      THEN [ node EXCEPT !.x = 400 + (index * 50),
                                         !.y = 300 + (index * 30),
                                         !.initialized = TRUE ]
                      ELSE node
        IN IF placed.manualPosition THEN placed
           ELSE [ placed EXCEPT !.sims = Append(@, draws[i]) ] ]

\* The coordinates the renderer reads off the nodes.
EnginePositions(e) ==
    [ i \in 1 .. Len(e.nodes) |->
        [ x |-> e.nodes[i].x, y |-> e.nodes[i].y, sims |-> e.nodes[i].sims ] ]

EngineUnchanged ==
    UNCHANGED << nodes, selectedId, layoutType, isEditing, editingNodeId, editText,
                 edits, nextId, published, mainStore, positions, isPanning >>

\* createNode of the connection-based store: it runs the engine on the new Map.
EngineCreateNode ==
    \E draws \in [ 1 .. Len(engine.nodes) + 1 -> RandomOutcomes ] :
        /\ Len(engine.nodes) < MaxIds
        /\ engine.runs < MaxRuns
        /\ engine' =
             [ nodes |-> runForceSimulation(
                             Append(engine.nodes,
                                    EngineNewNode(Len(engine.nodes) + 1, engine.nodes = << >>)),
                             draws),
               runs |-> engine.runs + 1,
               layoutType |-> engine.layoutType ]
        /\ last' = [ op |-> "engineCreateNode", arg |-> NoId ]
        /\ EngineUnchanged

recalculateLayout ==
    \E draws \in [ 1 .. Len(engine.nodes) -> RandomOutcomes ] :
        /\ engine.runs < MaxRuns
        /\ engine' = [ nodes |-> runForceSimulation(engine.nodes, draws),
                       runs |-> engine.runs + 1,
                       layoutType |-> engine.layoutType ]
        /\ last' = [ op |-> "recalculateLayout", arg |-> NoId ]
        /\ EngineUnchanged

commitNodePosition ==
    \E i \in 1 .. Len(engine.nodes), point \in DragPoints :
        /\ engine' = [ engine EXCEPT !.nodes[i] =
                         [ @ EXCEPT !.x = point[1], !.y = point[2], !.sims = << >>,
                                    !.manualPosition = TRUE ] ]
        /\ last' = [ op |-> "commitNodePosition", arg |-> i ]
        /\ EngineUnchanged

NextEngine ==
    \/ EngineCreateNode
    \/ recalculateLayout
    \/ commitNodePosition

SpecEngine == Init /\ [][NextEngine]_vars

----------------------------------------------------------------------------
\* The simplified store's operations called directly (its tests and any other
\* caller), with arguments that need not name a node.

ApiIds == DOMAIN nodes \cup { GhostId }

ApiTexts == { NewNodeText }

\* Partial<Node> values: only a text, and a text with the protected fields.
ApiUpdates ==
    { [ text |-> << "h", "i" >> ],
      [ id |-> GhostId, text |-> << "h", "i" >>, parent |-> GhostId,
        children |-> << GhostId >> ] }

ApiUnchanged ==
    UNCHANGED << isEditing, editingNodeId, editText, edits, positions, isPanning, otherStores >>

ApiCreateNode ==
    \E parentId \in ApiIds \cup { NoId }, text \in ApiTexts :
        /\ createNode(parentId, text)
        /\ last' = [ op |-> "createNode", arg |-> parentId ]
        /\ UNCHANGED layoutType
        /\ ApiUnchanged

ApiUpdateNode ==
    \E id \in ApiIds, updates \in ApiUpdates :
        /\ updateNode(id, updates)
        /\ last' = [ op |-> "updateNode", arg |-> id, updates |-> updates ]
        /\ UNCHANGED << selectedId, layoutType, nextId >>
        /\ ApiUnchanged

ApiSelectNode ==
    \E id \in DOMAIN nodes \cup { NoId } :
        /\ selectNode(id)
        /\ last' = [ op |-> "selectNode", arg |-> id ]
        /\ UNCHANGED << nodes, layoutType, nextId >>
        /\ ApiUnchanged

ApiSetLayoutType ==
    \E type \in LayoutTypes :
        /\ setLayoutType(type)
        /\ last' = [ op |-> "setLayoutType", arg |-> NoId ]
        /\ UNCHANGED nextId
        /\ ApiUnchanged

NextApi ==
    \/ ApiCreateNode
    \/ ApiUpdateNode
    \/ ApiSelectNode
    \/ ApiSetLayoutType

SpecApi == Init /\ [][NextApi]_vars

----------------------------------------------------------------------------
\* The earlier main store, the one that has deleteNode.  Its nodes carry
\* parentId instead of parent; the coordinates, tier and category of its nodes
\* and its connections play no part in what is modelled here.

MainCreateNodeState(st, parentId, text, id) ==
    LET hasParent == parentId \in DOMAIN st.nodes
        newNode == [ id |-> id, text |-> text, parentId |-> parentId, children |-> << >> ]
        withNew == MapSet(st.nodes, id, newNode)
        newNodes == IF hasParent
                    THEN [ withNew EXCEPT
                             ![parentId].children = Append(st.nodes[parentId].children, id) ]
                    ELSE withNew
    IN [ nodes |-> newNodes,
         rootId |-> IF hasParent THEN st.rootId ELSE id,
         selectedId |-> id ]

RECURSIVE collectNodesToDelete(_, _, _)
RECURSIVE CollectEach(_, _, _, _)

CollectEach(ns, acc, kids, i) ==
    IF i > Len(kids) THEN acc
    ELSE CollectEach(ns, collectNodesToDelete(ns, acc, kids[i]), kids, i + 1)

collectNodesToDelete(ns, acc, nodeId) ==
    IF nodeId \in DOMAIN ns
    THEN CollectEach(ns, acc \cup { nodeId }, ns[nodeId].children, 1)
    ELSE acc \cup { nodeId }

MainDeleteNodeState(st, id) ==
    IF id \notin DOMAIN st.nodes THEN st
    ELSE IF st.nodes[id].id = st.rootId THEN st
    ELSE LET node == st.nodes[id]
             nodesToDelete == collectNodesToDelete(st.nodes, {}, id)
             removed == MapWithout(st.nodes, nodesToDelete)
             newNodes ==
                 IF node.parentId # NoId /\ node.parentId \in DOMAIN removed
                 THEN [ removed EXCEPT
                          ![node.parentId].children =
                              SelectSeq(@, LAMBDA childId : childId \notin nodesToDelete) ]
                 ELSE removed
         IN [ nodes |-> newNodes,
              rootId |-> st.rootId,
              selectedId |-> IF st.selectedId = id THEN NoId ELSE st.selectedId ]

MainUpdateNodeState(st, id, updates) ==
    IF id \in DOMAIN st.nodes
    THEN [ st EXCEPT !.nodes[id] = Assign(@, updates) ]
    ELSE st

MainUnchanged ==
    UNCHANGED << nodes, selectedId, layoutType, isEditing, editingNodeId,
                 editText, edits, published, positions, isPanning, engine >>

\* The callers create the root on an empty map and children of existing nodes.
MainCreateNode ==
    \E parentId \in IF mainStore.nodes = EmptyMap THEN { NoId } ELSE DOMAIN mainStore.nodes :
        /\ nextId <= MaxIds
        /\ mainStore' = MainCreateNodeState(mainStore, parentId, NewNodeText, nextId)
        /\ nextId' = nextId + 1
        /\ last' = [ op |-> "createNode", arg |-> parentId ]
        /\ MainUnchanged

MainDeleteNode ==
    \E id \in DOMAIN mainStore.nodes \cup { GhostId } :
        /\ mainStore' = MainDeleteNodeState(mainStore, id)
        /\ last' = [ op |-> "deleteNode", arg |-> id ]
        /\ UNCHANGED nextId
        /\ MainUnchanged

MainSelectNode ==
    \E id \in DOMAIN mainStore.nodes :
        /\ mainStore' = [ mainStore EXCEPT !.selectedId = id ]
        /\ last' = [ op |-> "selectNode", arg |-> id ]
        /\ UNCHANGED nextId
        /\ MainUnchanged

MainUpdateNode ==
    \E id \in DOMAIN mainStore.nodes, text \in Buffers :
        /\ mainStore' = MainUpdateNodeState(mainStore, id, [ text |-> text ])
        /\ last' = [ op |-> "updateNode", arg |-> id ]
        /\ UNCHANGED nextId
        /\ MainUnchanged

NextStore ==
    \/ MainCreateNode
    \/ MainDeleteNode
    \/ MainSelectNode
    \/ MainUpdateNode

SpecStore == Init /\ [][NextStore]_vars

----------------------------------------------------------------------------
\* The tree invariants of the data model.

\* Every parent pointer names a node that lists the child, and every child id
\* names a node that points back.
ParentChildConsistent(ns) ==
    /\ \A c \in DOMAIN ns :
           ns[c].parent # NoId =>
               /\ ns[c].parent \in DOMAIN ns
               /\ c \in Range(ns[ns[c].parent].children)
    /\ \A p \in DOMAIN ns :
           \A k \in Range(ns[p].children) :
               k \in DOMAIN ns /\ ns[k].parent = p

SingleRoot(ns) == ns # EmptyMap => Cardinality(RootIds(ns)) = 1

SelectionValid(ns, sel) == sel = NoId \/ sel \in DOMAIN ns

\* A node and all its transitive descendants.
SubtreeIds(ns, id) == ReachFrom(ns, { id }, { id })

DeleteIssuedOn(id) == last'.op = "Delete" /\ last'.arg = id

\* C1: in every reachable state parent pointers and children lists agree.
C1_ParentChildAgree == ParentChildConsistent(nodes)

\* C2: deleting a non-root node removes exactly the node and its transitive
\* descendants from the node map.
C2_DeleteRemovesSubtree ==
    [][ \A id \in DOMAIN nodes :
            (DeleteIssuedOn(id) /\ nodes[id].parent # NoId) =>
                DOMAIN nodes' = DOMAIN nodes \ SubtreeIds(nodes, id) ]_vars

\* C3: a delete issued on the root changes neither the node map nor the selection.
C3_DeleteRootIsNoOp ==
    [][ \A id \in DOMAIN nodes :
            (DeleteIssuedOn(id) /\ nodes[id].parent = NoId) =>
                (nodes' = nodes /\ selectedId' = selectedId) ]_vars

\* C4: a non-empty node map has exactly one node without a parent.
C4_ExactlyOneRoot == SingleRoot(nodes)

\* C6: a handler publishes no intermediate store state: every state handed to
\* the subscribers is the handler's final one and satisfies the tree invariants.
C6_NoIntermediateStatePublished ==
    \A i \in 1 .. Len(published) :
        /\ i = Len(published)
        /\ published[i] = Snapshot(nodes, selectedId)
        /\ ParentChildConsistent(published[i].nodes)
        /\ SingleRoot(published[i].nodes)
        /\ SelectionValid(published[i].nodes, published[i].selectedId)

\* C5: the selection is none or the id of a node of the node map, also after
\* deleteNode removed the selected node together with an ancestor.
C5_SelectionValid == SelectionValid(mainStore.nodes, mainStore.selectedId)

\* The same for the simplified store under the commands of the interface.
SelectionValidSimplified == SelectionValid(nodes, selectedId)

CreateIssued == last'.op = "createNode"

\* C7: createNode on an empty node map adds exactly one node, the root.
C7_FirstNodeIsRoot ==
    [][ (CreateIssued /\ nodes = EmptyMap) =>
            \E id \in DOMAIN nodes' :
                /\ DOMAIN nodes' = { id }
                /\ nodes'[id].parent = NoId
                /\ nodes'[id].children = << >> ]_vars

\* C8: createNode on a non-empty node map with a parentId that names no node
\* changes neither the node map nor the selection.
C8_CreateUnknownParentIsNoOp ==
    [][ (CreateIssued /\ nodes # EmptyMap /\ last'.arg \notin DOMAIN nodes) =>
            (nodes' = nodes /\ selectedId' = selectedId) ]_vars

\* C9: createNode(p) with p an existing node appends the new id to p.children,
\* gives the new node parent p and no children, changes no other node and
\* selects the new node.
C9_CreateAppendsChild ==
    [][ \A p \in DOMAIN nodes :
            (CreateIssued /\ last'.arg = p) =>
                \E id \in DOMAIN nodes' \ DOMAIN nodes :
                    /\ DOMAIN nodes' = DOMAIN nodes \cup { id }
                    /\ nodes'[p] = [ nodes[p] EXCEPT !.children = Append(@, id) ]
                    /\ nodes'[id].id = id
                    /\ nodes'[id].parent = p
                    /\ nodes'[id].children = << >>
                    /\ \A o \in DOMAIN nodes \ { p } : nodes'[o] = nodes[o]
                    /\ selectedId' = id ]_vars

\* createNode(p) ran on a parent that already had a child.
C9_Witness ==
    /\ last.op = "createNode"
    /\ last.arg \in DOMAIN nodes
    /\ Len(nodes[last.arg].children) >= 2
    /\ selectedId = nodes[last.arg].children[Len(nodes[last.arg].children)]

C11_LayoutRunsAgree ==
    [][ ( /\ last'.op = "recalculateLayout"
          /\ last.op \in { "recalculateLayout", "engineCreateNode" } ) =>
            EnginePositions(engine') = EnginePositions(engine) ]_vars

PreviousSiblingOrParent(ns, s) ==
    LET siblings == ns[ns[s].parent].children
        i == IndexOf(siblings, s)
    IN IF i > 1 THEN siblings[i - 1] ELSE ns[s].parent

NextSiblingOrSelf(ns, s) ==
    IF ns[s].parent \notin DOMAIN ns THEN s
    ELSE LET siblings == ns[ns[s].parent].children
             i == IndexOf(siblings, s)
         IN IF i >= 1 /\ i < Len(siblings) THEN siblings[i + 1] ELSE s

ParentOrSelf(ns, s) == IF ns[s].parent # NoId THEN ns[s].parent ELSE s

FirstChildOrSelf(ns, s) == IF ns[s].children # << >> THEN ns[s].children[1] ELSE s

\* C13: 'up' on a selected non-root node selects its previous sibling, and its
\* parent when it is the first child.
C13_UpSelectsPreviousOrParent ==
    [][ \A s \in DOMAIN nodes :
            ( /\ last'.op = "ArrowUp" /\ last'.arg = s
              /\ nodes[s].parent \in DOMAIN nodes ) =>
                selectedId' = PreviousSiblingOrParent(nodes, s) ]_vars

C15_EnterCreatesSibling ==
    [][ \A s \in DOMAIN nodes :
            (last'.op = "Enter" /\ last'.arg = s) =>
                IF nodes[s].parent # NoId
                THEN \E id \in DOMAIN nodes' \ DOMAIN nodes :
                        /\ DOMAIN nodes' = DOMAIN nodes \cup { id }
                        /\ nodes'[id].parent = nodes[s].parent
                        /\ nodes[s].parent \in DOMAIN nodes
                        /\ nodes'[nodes[s].parent].children =
                               Append(nodes[nodes[s].parent].children, id)
                        /\ selectedId' = id
                ELSE /\ nodes' = nodes
                     /\ selectedId' = selectedId
                     /\ Cardinality(RootIds(nodes')) = 1 ]_vars

\* Enter on a selected child of the root gave it a sibling, which is selected.
C15_Witness ==
    /\ last.op = "Enter"
    /\ last.arg \in DOMAIN nodes
    /\ nodes[last.arg].parent \in DOMAIN nodes
    /\ selectedId # last.arg
    /\ selectedId \in DOMAIN nodes
    /\ nodes[selectedId].parent = nodes[last.arg].parent
    /\ nodes[nodes[last.arg].parent].children = << last.arg, selectedId >>

HasAngleBracket(text) == \E i \in 1 .. Len(text) : text[i] \in { "<", ">" }

\* C16: after a commit by Enter the stored text of the edited node holds no
\* '<' and no '>', and no node is being edited.
C16_CommittedTextIsSanitized ==
    [][ last'.op = "commit" =>
            /\ ~isEditing'
            /\ last'.arg \in DOMAIN nodes'
            /\ ~HasAngleBracket(nodes'[last'.arg].text) ]_vars

C18_EditingExcludesPanning == ~(isEditing /\ isPanning)

\* C19 as stated: when the initial-node effect has run, no node is edited, the
\* map holds the root alone and nothing is selected.
C19_StartupNothingSelected ==
    last.op = "effect" =>
        /\ ~isEditing
        /\ Cardinality(DOMAIN nodes) = 1
        /\ \A i \in DOMAIN nodes : nodes[i].parent = NoId /\ nodes[i].children = << >>
        /\ selectedId = NoId

\* C19 amended: when the initial-node effect has run, no node is edited, the
\* map holds the root alone and the root is selected.
C19_StartupRootSelected ==
    last.op = "effect" =>
        /\ ~isEditing
        /\ Cardinality(DOMAIN nodes) = 1
        /\ \A i \in DOMAIN nodes : nodes[i].parent = NoId /\ nodes[i].children = << >>
        /\ selectedId \in DOMAIN nodes

\* The effect ran on the empty store of the first render.
C19_Witness ==
    /\ last.op = "effect"
    /\ nextId = 2
    /\ DOMAIN nodes = { 1 }
    /\ nodes[1].text = StartHereText

\* C20: a layout switch changes the layout mode and nothing else: the node
\* map, the selection and the interaction mode stay.
C20_LayoutSwitchKeepsStore ==
    [][ last'.op = "layout" =>
            /\ nodes' = nodes
            /\ selectedId' = selectedId
            /\ isEditing' = isEditing
            /\ editingNodeId' = editingNodeId
            /\ isPanning' = isPanning ]_vars

\* The layout was switched from Center to Top with a child node selected.
C20_Witness ==
    /\ last.op = "layout"
    /\ layoutType = "top"
    /\ selectedId \in DOMAIN nodes
    /\ nodes[selectedId].parent # NoId

----------------------------------------------------------------------------
\* The persist middleware of the simplified store.  A value handed to the
\* storage is tagged with its JavaScript kind: an array carries its items, a
\* Map carries its entries, a plain object its own enumerable properties.
\* Strings, null and arrays of strings come back from JSON as they went in, so
\* a node object (id, text, parent, children) is kept as the record it is.

\* Array.from(state.nodes.entries()): the [id, node] pairs in the Map's order.
RECURSIVE EntriesFrom(_, _)
EntriesFrom(ns, remaining) ==
    IF remaining = {} THEN << >>
    ELSE LET id == CHOOSE i \in remaining : \A o \in remaining : i <= o
         IN << << id, ns[id] >> >> \o EntriesFrom(ns, remaining \ { id })

\* partialize that hands the Map itself to the storage.
partializeMapItself(state) ==
    [ nodes |-> [ kind |-> "map", items |-> EntriesFrom(state.nodes, DOMAIN state.nodes) ],
      layoutType |-> state.layoutType ]

\* partialize: selectedId is not persisted.
partialize(state) ==
    [ nodes |-> [ kind |-> "array", items |-> EntriesFrom(state.nodes, DOMAIN state.nodes) ],
      layoutType |-> state.layoutType ]

\* createJSONStorage: JSON.parse(JSON.stringify(value)).  A Map has no own
\* enumerable properties and is written as {}.
JsonStored(persisted) ==
    [ persisted EXCEPT !.nodes = IF @.kind = "map"
                                 THEN [ kind |-> "object", items |-> << >> ]
                                 ELSE @ ]

\* new Map(nodesArr): a later entry with the same key replaces an earlier one.
RECURSIVE MapFromEntries(_, _, _)
MapFromEntries(m, entries, i) ==
    IF i > Len(entries) THEN m
    ELSE MapFromEntries(MapSet(m, entries[i][1], entries[i][2]), entries, i + 1)

\* merge: the array form and the legacy object form (Object.entries) both give
\* the list of pairs; the persisted state has no selectedId.
merge(persisted, current) ==
    LET nodesArr == IF persisted.nodes.kind \in { "array", "object" }
                    THEN persisted.nodes.items
                    ELSE << >>
    IN [ nodes |-> MapFromEntries(EmptyMap, nodesArr, 1),
         selectedId |-> current.selectedId,
         layoutType |-> persisted.layoutType ]

\* The store a reload builds from what the running store has persisted.
Rehydrated ==
    merge(JsonStored(partialize([ nodes |-> nodes, selectedId |-> selectedId,
                                  layoutType |-> layoutType ])),
          [ nodes |-> EmptyMap, selectedId |-> NoId, layoutType |-> "center" ])

----------------------------------------------------------------------------
\* The layout engines on their own: calculateLayout applied to node maps of
\* more nodes than one behaviour of the UI model creates.  A node map is built
\* by the store's createNode from a creation order: v[i] is the parent the i-th
\* node is created under (NoId for the first node, the root).

\* Number of nodes of the maps built in every creation order.
MaxTreeNodes == 5
\* Number of nodes of the maps built breadth-first (a node's parent is never
\* older than the parent of the node created before it).
MaxWideNodes == 9

RECURSIVE AllCreationOrders(_)
AllCreationOrders(n) ==
    IF n = 1 THEN { << NoId >> }
    ELSE UNION { { Append(v, p) : p \in 1 .. n - 1 } : v \in AllCreationOrders(n - 1) }

RECURSIVE BreadthFirstOrders(_)
BreadthFirstOrders(n) ==
    IF n = 1 THEN { << NoId >> }
    ELSE UNION { { Append(v, p) : p \in (IF v[n - 1] = NoId THEN 1 ELSE v[n - 1]) .. n - 1 } :
                 v \in BreadthFirstOrders(n - 1) }

\* The texts the nodes carry: the default of createNode, or texts the user has
\* committed, of 10, 15 and 20 characters.
TextSchemes == { "default", "varied" }

TextOfLength(n) == [ i \in 1 .. n |-> "x" ]

SchemeText(scheme, id) ==
    IF scheme = "default" THEN NewNodeText
    ELSE TextOfLength(CASE id % 3 = 0 -> 15 [] id % 3 = 1 -> 10 [] OTHER -> 20)

RECURSIVE BuildTree(_, _, _, _)
BuildTree(v, scheme, i, ns) ==
    IF i > Len(v) THEN ns
    ELSE BuildTree(v, scheme, i + 1, CreateNodeMap(ns, v[i], SchemeText(scheme, i), i))

TreeOf(v, scheme) == BuildTree(v, scheme, 1, EmptyMap)

SmallTrees(scheme) ==
    { TreeOf(v, scheme) : v \in UNION { AllCreationOrders(n) : n \in 1 .. MaxTreeNodes } }

WideTrees ==
    { TreeOf(v, "default") : v \in UNION { BreadthFirstOrders(n) : n \in 1 .. MaxWideNodes } }

\* The map the delete handler leaves in the store.
AfterDelete(ns, id) ==
    LET res == deleteNodeAndChildren([ objs |-> ns, pubs |-> << >> ], id)
    IN res.pubs[Len(res.pubs)].nodes

\* The map merge rebuilds from a persisted list that lacks the entry of id:
\* merge validates nothing.
WithoutEntry(ns, id) == MapWithout(ns, { id })

DamagedMaps ==
    UNION { { AfterDelete(ns, id) : id \in DOMAIN ns } \cup
            { WithoutEntry(ns, id) : id \in DOMAIN ns } : ns \in SmallTrees("default") }

LayoutMaps == SmallTrees("default") \cup SmallTrees("varied") \cup WideTrees \cup DamagedMaps

InitLayout ==
    /\ nodes \in LayoutMaps
    /\ selectedId = NoId
    /\ layoutType = "center"
    /\ isEditing = FALSE
    /\ editingNodeId = NoId
    /\ editText = << >>
    /\ edits = 0
    /\ nextId = MaxWideNodes + 1
    /\ published = << >>
    /\ last = [ op |-> "init", arg |-> NoId ]
    /\ mainStore = [ nodes |-> EmptyMap, rootId |-> NoId, selectedId |-> NoId ]
    /\ positions = EmptyPositions
    /\ isPanning = FALSE
    /\ engine = EmptyEngine

\* LayoutManager.calculateLayout(nodes, layoutType)
LayoutPass ==
    \E type \in LayoutTypes :
        /\ layoutType' = type
        /\ positions' = calculateLayout(nodes, type)
        /\ last' = [ op |-> "calculateLayout", arg |-> NoId ]
        /\ UNCHANGED << nodes, selectedId, isEditing, editingNodeId, editText, edits,
                        nextId, published, isPanning, otherStores >>

NextLayout == LayoutPass

SpecLayout == InitLayout /\ [][NextLayout]_vars

\* The position map is the result of a pass of the named engine.
LaidOut(type) == last.op = "calculateLayout" /\ layoutType = type

----------------------------------------------------------------------------
\* Geometry of a position map.

\* Top layout: the gap between neighbours of a row and the canvas centre line.
MinSpacing == 60
CanvasCentreX == 800
\* Center layout: the first tier's distance from the root and the step between siblings.
BaseDistance == 250
SiblingSpacing == 80

LeftEdge(pos, id) == pos[id].x - (pos[id].width \div 2)

RightEdge(pos, id) == pos[id].x + (pos[id].width \div 2)

\* The nodes of the row of id.
Row(pos, id) == { j \in DOMAIN pos : pos[j].y = pos[id].y }

RECURSIVE SumOfWidths(_, _)
SumOfWidths(pos, ids) ==
    IF ids = {} THEN 0
    ELSE LET j == CHOOSE k \in ids : TRUE
         IN pos[j].width + SumOfWidths(pos, ids \ { j })

RowWidth(pos, id) ==
    SumOfWidths(pos, Row(pos, id)) + (Cardinality(Row(pos, id)) - 1) * MinSpacing

C23_TopOrderIsDiscoveryOrder ==
    LaidOut("top") =>
        \A a, b \in DOMAIN positions :
            ( /\ a # b
              /\ positions[a].y = positions[b].y
              /\ nodes[a].parent \in DOMAIN positions
              /\ nodes[b].parent \in DOMAIN positions ) =>
            LET pa == nodes[a].parent
                pb == nodes[b].parent
            IN /\ ( pa = pb /\ IndexOf(nodes[pa].children, a) < IndexOf(nodes[pa].children, b) )
                      => positions[a].x < positions[b].x
               /\ ( pa # pb /\ positions[pa].x < positions[pb].x )
                      => positions[a].x < positions[b].x

C25_CenterInheritsSide ==
    ( LaidOut("center") /\ FindRootNode(nodes) # NoId ) =>
        LET root == FindRootNode(nodes)
        IN \A id \in DOMAIN positions :
               LET p == nodes[id].parent
               IN ( p \in DOMAIN positions /\ p # root /\ id # root ) =>
                  /\ positions[p].x < positions[root].x => positions[id].x < positions[root].x
                  /\ positions[p].x > positions[root].x => positions[id].x > positions[root].x

\* The parent reference of id names no node of the map.
DanglingParent(ns, id) == ns[id].parent # NoId /\ ns[id].parent \notin DOMAIN ns

C29_CenterNoSharedCentre ==
    LaidOut("center") =>
        \A a, b \in DOMAIN positions :
            a # b => ( positions[a].x # positions[b].x \/ positions[a].y # positions[b].y )

----------------------------------------------------------------------------
\* The parent and children of every node.
Structure(ns) ==
    [ i \in DOMAIN ns |-> [ parent |-> ns[i].parent, children |-> ns[i].children ] ]

----------------------------------------------------------------------------
\* React runs the effects of a render before it handles the next event, so the
\* initial-node effect cannot stay enabled for ever without running.
SpecLive == Spec /\ WF_vars(InitialNodeEffect)

\* The map holds the node of createNode('', 'Start Here') and nothing else.
SingleStartNode(ns) ==
    /\ Cardinality(DOMAIN ns) = 1
    /\ \A i \in DOMAIN ns :
          ns[i].parent = NoId /\ ns[i].children = << >> /\ ns[i].text = StartHereText

\* The map is empty and nanoid() has an id left in this behaviour.
MapEmptied == nodes = EmptyMap /\ nextId <= MaxIds

\* C28: an empty node map is never stable: whenever the map is empty (at
\* startup, after Reset Canvas, after a delete of the last node) the next step
\* is the automatic creation of a single root, no user input comes before it,
\* and that step does come.
C28_EmptyMapGetsRoot ==
    /\ [][ MapEmptied => ( last'.op = "effect" /\ SingleStartNode(nodes') ) ]_vars
    /\ ( MapEmptied ~> SingleStartNode(nodes) )

\* The effect has created a root again after the map was emptied.
C28_Witness ==
    /\ last.op = "effect"
    /\ nextId > 2
    /\ SingleStartNode(nodes)

----------------------------------------------------------------------------
\* sanitizeNodeText and the earlier NodeComponent, which commits its buffer
\* through it.  The component keeps the buffer (editText) in step with
\* node.text, so a second edit of a node starts from the stored text.

\* substring(0, 500)
MaxLength == 500
\* Number of characters the user types behind the prefix.
MaxTyped == 3

IsWhitespace(c) == c \in { " ", "\n", "\t" }

\* String.prototype.trim
RECURSIVE TrimStart(_)
TrimStart(text) ==
    IF text # << >> /\ IsWhitespace(Head(text)) THEN TrimStart(Tail(text)) ELSE text

RECURSIVE TrimEnd(_)
TrimEnd(text) ==
    IF text # << >> /\ IsWhitespace(text[Len(text)])
    THEN TrimEnd(SubSeq(text, 1, Len(text) - 1))
    ELSE text

Trim(text) == TrimEnd(TrimStart(text))

\* replace(/[<>]/g, '')
RemoveAngleBrackets(text) == SelectSeq(text, LAMBDA c : c \notin { "<", ">" })

\* substring(0, 500)
Truncate(text) == IF Len(text) > MaxLength THEN SubSeq(text, 1, MaxLength) ELSE text

sanitizeNodeText(text) == Truncate(RemoveAngleBrackets(Trim(text)))

\* What the user types: up to MaxTyped characters, at the start of the text or
\* behind MaxLength - 2 characters.
TypedCharacters == { "a", " ", "<", ">" }

TypedTexts == UNION { [ 1 .. n -> TypedCharacters ] : n \in 0 .. MaxTyped }

LongPrefix == [ i \in 1 .. MaxLength - 2 |-> "x" ]

SanitizeInputs == TypedTexts \cup { LongPrefix \o t : t \in TypedTexts }

InitSanitize ==
    /\ nodes = EmptyMap
    /\ selectedId = NoId
    /\ layoutType = "center"
    /\ isEditing = TRUE
    /\ editingNodeId = 1
    /\ editText \in SanitizeInputs
    /\ edits = 0
    /\ nextId = 2
    /\ published = << >>
    /\ last = [ op |-> "init", arg |-> NoId ]
    /\ mainStore = MainCreateNodeState(
                       [ nodes |-> EmptyMap, rootId |-> NoId, selectedId |-> NoId ],
                       NoId, StartHereText, 1)
    /\ positions = EmptyPositions
    /\ isPanning = FALSE
    /\ engine = EmptyEngine

SanitizeUnchanged ==
    UNCHANGED << nodes, selectedId, layoutType, editingNodeId, edits, nextId,
                 published, positions, isPanning, engine >>

\* handleTextareaBlur / Enter in the textarea: the sanitized buffer is stored,
\* and the component's effect on node.text sets the buffer to the stored text.
SanitizedCommit ==
    /\ isEditing
    /\ mainStore' = MainUpdateNodeState(mainStore, editingNodeId,
                                        [ text |-> sanitizeNodeText(editText) ])
    /\ editText' = mainStore'.nodes[editingNodeId].text
    /\ isEditing' = FALSE
    /\ last' = [ op |-> "sanitizedCommit", arg |-> editingNodeId ]
    /\ SanitizeUnchanged

\* Double click on the node: the textarea opens on the buffer.
EditAgain ==
    /\ ~isEditing
    /\ isEditing' = TRUE
    /\ last' = [ op |-> "editAgain", arg |-> editingNodeId ]
    /\ UNCHANGED << mainStore, editText >>
    /\ SanitizeUnchanged

NextSanitize ==
    \/ SanitizedCommit
    \/ EditAgain

SpecSanitize == InitSanitize /\ [][NextSanitize]_vars

\* C30: sanitizeNodeText is idempotent: a commit of a text that an earlier
\* commit has sanitized stores it unchanged.
C30_SanitizeIsIdempotent ==
    [][ ( isEditing /\ ~isEditing' /\ last.op # "init" ) =>
            /\ sanitizeNodeText(editText) = editText
            /\ mainStore'.nodes[editingNodeId].text = mainStore.nodes[editingNodeId].text ]_vars

====
